---- MODULE Spec2Model ----
(***************************************************************************)
(* Server side of network_manager (server-core/src/network_manager.cpp):   *)
(* the peer registry _playing_peer_list, the coroutines read_loop,         *)
(* heartbeat_loop, accept_tcp_loop and accept_udp_loop that run on the     *)
(* single io_context thread, the producer entry broadcast_audio_data and   *)
(* the control operations start_server / stop_server.                      *)
(***************************************************************************)
EXTENDS Integers, Sequences, FiniteSets, TLC

(***************************************************************************)
(* Bounds of the model.                                                    *)
(***************************************************************************)
\* control connections accepted during one start_server/stop_server cycle
MaxChannels == 2
\* add_playing_peer stops being called once g_id has reached this value
MaxIds == 2
\* distinct datagram source addresses
MaxEndpoints == 2
\* broadcast_audio_data calls over the whole run
MaxBroadcasts == 2
\* start_server calls over the whole run
MaxStarts == 2
\* connections reset by their peer (RST) over the whole run
MaxResets == 1
\* payload lengths of the segmenter: 0..MaxSmallCount and, for every
\* k in 1..MaxMult, 1464*k - MaxDelta .. 1464*k + MaxDelta
MaxSmallCount == 12
MaxMult == 2
MaxDelta == 4
\* largest blob size a GET_FORMAT response announces
MaxFormatSize == 2

(***************************************************************************)
(* Program constants.                                                      *)
(***************************************************************************)
mtu == 1492
ipv4_header == 20
udp_header == 8
\* timer.expires_after(3s), in seconds
HeartbeatInterval == 3
\* cmd_t and _heartbeat_timeout are declared in network_manager.hpp
cmd_none == 0
cmd_get_format == 1
cmd_start_play == 2
cmd_heartbeat == 3
\* an inbound command word that is none of the above (FF FF FF FF)
cmd_unknown == 255
HeartbeatTimeout == 10

Min(a, b) == IF a < b THEN a ELSE b

(***************************************************************************)
(* The segmenter of broadcast_audio_data.                                  *)
(***************************************************************************)
\* int max_seg_size = mtu - 20 - 8; max_seg_size -= max_seg_size % block_align;
MaxSegSizeNoAlign(block_align) == mtu - ipv4_header - udp_header

MaxSegSize(block_align) ==
    LET m == mtu - ipv4_header - udp_header
    IN  m - (m % block_align)

\* const int real_seg_size = std::min((int)count - begin_pos, max_seg_size);
RealSegSize(cnt, pos, mss) == Min(cnt - pos, mss)

\* the caller's buffer: cnt bytes, byte i (0-based) has the value i mod 251
Payload(cnt) == [i \in 1..cnt |-> (i - 1) % 251]

\* std::copy(data + begin_pos, data + begin_pos + real_seg_size, seg->begin())
CopySeg(data, pos, size) == SubSeq(data, pos + 1, pos + size)

RECURSIVE Flatten(_)
Flatten(segs) ==
    IF segs = <<>> THEN <<>> ELSE Head(segs) \o Flatten(Tail(segs))

\* segments a process can hold before make_shared / push_back throws
\* std::bad_alloc; every terminating segmentation of the lengths drawn
\* here needs fewer (a segment is longer than 1464 \div 2 bytes)
MemSegs == 2 * MaxMult + 3

Counts ==
    (0..MaxSmallCount) \cup
    UNION { (1464 * k - MaxDelta)..(1464 * k + MaxDelta) : k \in 1..MaxMult }

BlockAligns == {1, 2, 3, 4, 6, 8, 100, 488, 732, 733, 1000, 1464, 1465, 1468, 2928}

VARIABLES
    \* ---- control thread ----
    ioc,                \* _ioc != nullptr, i.e. is_running()
    net_thread,         \* _net_thread: "idle" (not joinable) or "running"
    capturing,          \* the audio collaborator is between start_loopback_recording and stop
    udp_server,         \* _udp_server != nullptr
    ctl,                \* how the last start_server / stop_server call ended
    starts,             \* start_server calls made so far
    \* ---- registry ----
    g_id,               \* static int g_id of add_playing_peer
    playing_peer_list,  \* _playing_peer_list: control channel -> peer_info_t
    \* ---- control channels (tcp_socket) of the current cycle ----
    chan,               \* "free" (not accepted yet), "open", "closed"
    connected,          \* the TCP connection has not been reset by the peer
    resets,             \* connections reset so far
    \* ---- coroutines on the io_context ----
    acc,                \* accept_tcp_loop: "none", "accept", "done"
    udp,                \* accept_udp_loop: "none", "recv", "done"
    rl,                 \* read_loop(peer): "none", "read", "write_format", "write_ack", "done"
    rl_id,              \* read_loop's local int id (236) while the acknowledgment is written, else 0
    rl_cmd,             \* read_loop's local cmd_t cmd (line 211), kept when the loop ends
    hb,                 \* heartbeat_loop(peer): "none", "wait", "due", "write", "done"
    \* ---- broadcast ----
    posted,             \* tasks handed to _ioc->post, not yet run
    broadcasts,         \* broadcast_audio_data calls made so far
    \* ---- history ----
    issued,             \* the ids add_playing_peer has issued, in order, each with its run
                        \* and the channel it was issued on
    acked_id,           \* per channel: the id of the last START_PLAY response written
    hb_spawned,         \* per channel: co_spawn(heartbeat_loop(peer)) calls made (line 253)
    last_inv,           \* the invocation whose posted task ran last
    ran,                \* the async_send_to calls the posted task run by the
                        \* last step made, per control channel (none after
                        \* any other step)
    \* ---- broadcast_audio_data's frame (segmenter) ----
    seg_pc,        \* "idle", "call", "loop", "posted", "returned", "bad_alloc"
    count,         \* size_t count
    block_align,   \* int block_align
    max_seg_size,  \* int max_seg_size
    begin_pos,     \* int begin_pos
    seg_list,      \* std::list<std::shared_ptr<std::vector<uint8_t>>>
    \* ---- threads (thread-level specification) ----
    stop_pc,       \* the control thread inside stop_server: "none", "stopped_ioc",
                   \* "joined", "audio_stopped", "clearing", "cleared"
    exec_pc,       \* the thread of _net_thread: "none", "idle" (in _ioc->run(),
                   \* between handlers), "task" (inside a handler), "exited"
    access,        \* the threads that are inside an access to _playing_peer_list
    \* ---- a manager used as client (client specification) ----
    cl_pc,         \* client_connect: "none", "connect", "write_get_format",
                   \* "read_format", "read_blob", "write_start_play",
                   \* "read_play", "spawned", "returned" (a co_return or the catch)
    cl_format,     \* buffer of line 547 as last read: [cmd, size]
    cl_play,       \* buffer of line 586 as last read: [cmd, id]
    udp_id,        \* client_connect's local uint32_t udp_id
    cl_hb,         \* client_heartbeat_loop: "none", "write", "wait", "done"
    cl_udp,        \* client_udp_loop: "none", "connect", "send", "receive", "done"
    cl_id,         \* client_udp_loop's parameter id
    cl_sent,       \* the ids of the registration datagrams sent, in order
    cl_played      \* audio datagrams handed to audio_play

segVars == <<seg_pc, count, block_align, max_seg_size, begin_pos, seg_list>>
histVars == <<issued, acked_id, hb_spawned, last_inv>>
mainVars == <<ioc, starts, g_id, playing_peer_list, chan, connected, resets,
              acc, udp, rl, rl_id, rl_cmd, hb, posted, broadcasts, issued,
              acked_id, hb_spawned,
              last_inv, ran>>
mainVars_but_ran == <<ioc, starts, g_id, playing_peer_list, chan, connected,
                      resets, acc, udp, rl, rl_id, rl_cmd, hb, posted,
                      broadcasts, issued, acked_id, hb_spawned,
                      last_inv>>
ctlVars == <<net_thread, capturing, udp_server, ctl>>
thrVars == <<stop_pc, exec_pc, access>>
cliVars == <<cl_pc, cl_format, cl_play, udp_id, cl_hb, cl_udp, cl_id, cl_sent,
             cl_played>>
vars == <<mainVars, segVars, ctlVars, thrVars, cliVars>>

\* a step that is not the run of a posted task and not a step of the
\* segmenter
NoRunCtl == ran' = <<>> /\ UNCHANGED <<segVars, thrVars, cliVars>>

\* the same of a step that is not start_server or stop_server either
NoRun == NoRunCtl /\ UNCHANGED ctlVars

\* the io_context exists and _net_thread is inside _ioc->run()
io_running == ioc /\ net_thread = "running"

\* lines 400-410: the early return, then max_seg_size
SegEnter ==
    /\ seg_pc = "call"
    /\ \/ /\ count <= 0
          /\ seg_pc' = "returned"
          /\ UNCHANGED max_seg_size
       \/ /\ count > 0
          /\ max_seg_size' = MaxSegSize(block_align)
          /\ seg_pc' = "loop"
    /\ UNCHANGED <<count, block_align, begin_pos, seg_list>>
    /\ UNCHANGED <<mainVars, ctlVars, thrVars, cliVars>>

\* lines 412-418: one iteration of the for loop
SegLoop ==
    /\ seg_pc = "loop"
    /\ begin_pos < count
    /\ \/ /\ Len(seg_list) < MemSegs
          /\ LET real_seg_size == RealSegSize(count, begin_pos, max_seg_size)
             IN  /\ seg_list' = Append(seg_list,
                                       CopySeg(Payload(count), begin_pos, real_seg_size))
                 /\ begin_pos' = begin_pos + real_seg_size
          /\ UNCHANGED seg_pc
       \/ /\ Len(seg_list) >= MemSegs
          /\ seg_pc' = "bad_alloc"
          /\ UNCHANGED <<seg_list, begin_pos>>
    /\ UNCHANGED <<count, block_align, max_seg_size>>
    /\ UNCHANGED <<mainVars, ctlVars, thrVars, cliVars>>

\* line 412 (loop exit) and line 420: the segment list is moved into the
\* posted task
SegPost ==
    /\ seg_pc = "loop"
    /\ begin_pos >= count
    /\ seg_pc' = "posted"
    /\ UNCHANGED <<count, block_align, max_seg_size, begin_pos, seg_list>>
    /\ UNCHANGED <<mainVars, ctlVars, thrVars, cliVars>>

(***************************************************************************)
(* The server.                                                             *)
(***************************************************************************)
Chan == 1..MaxChannels
Endpoints == 1..MaxEndpoints
\* a default-constructed ip::udp::endpoint: peer_info_t::udp_peer before
\* fill_udp_peer has assigned it
NoEndpoint == 0
\* ages are kept up to this value: the code compares them with
\* _heartbeat_timeout only
AgeCap == 5 * HeartbeatInterval


NoChannels ==
    /\ chan = [c \in Chan |-> "free"]
    /\ connected = [c \in Chan |-> FALSE]
    /\ rl = [c \in Chan |-> "none"]
    /\ rl_id = [c \in Chan |-> 0]
    /\ rl_cmd = [c \in Chan |-> cmd_none]
    /\ hb = [c \in Chan |-> "none"]
    /\ acked_id = [c \in Chan |-> 0]
    /\ hb_spawned = [c \in Chan |-> 0]

\* the state after network_manager's constructor (lines 46-49)
MainInit ==
    /\ ioc = FALSE
    /\ net_thread = "idle"
    /\ capturing = FALSE
    /\ udp_server = FALSE
    /\ ctl = "none"
    /\ starts = 0
    /\ g_id = 0
    /\ playing_peer_list = <<>>
    /\ NoChannels
    /\ resets = 0
    /\ acc = "none"
    /\ udp = "none"
    /\ posted = <<>>
    /\ broadcasts = 0
    /\ issued = <<>>
    /\ last_inv = 0
    /\ ran = <<>>
    /\ stop_pc = "none"
    /\ exec_pc = "none"
    /\ access = {}
    /\ cl_pc = "none"
    /\ cl_format = [cmd |-> cmd_none, size |-> 0]
    /\ cl_play = [cmd |-> cmd_none, id |-> 0]
    /\ udp_id = 0
    /\ cl_hb = "none"
    /\ cl_udp = "none"
    /\ cl_id = 0
    /\ cl_sent = <<>>
    /\ cl_played = 0

\* no call of the segmenter's own specification is in progress
Init ==
    /\ MainInit
    /\ seg_pc = "idle"
    /\ count = 0
    /\ block_align = 1
    /\ max_seg_size = 0
    /\ begin_pos = 0
    /\ seg_list = <<>>

\* a call broadcast_audio_data(data, count, block_align)
SegInit ==
    /\ MainInit
    /\ seg_pc = "call"
    /\ count \in Counts
    /\ block_align \in BlockAligns
    /\ max_seg_size = 0
    /\ begin_pos = 0
    /\ seg_list = <<>>

-----------------------------------------------------------------------------
(* registry operations *)

\* lines 354-368, without the remote_endpoint() calls of its log lines:
\* the value returned, the registry and the counter afterwards
add_playing_peer_by_size(l, g, c) ==
    IF c \in DOMAIN l
    THEN [ret |-> 0, list |-> l, g_id |-> g]
    ELSE LET n == Cardinality(DOMAIN l) + 1
         IN  [ret |-> n,
              list |-> [x \in (DOMAIN l) \cup {c} |->
                          IF x = c THEN [id |-> n, udp_peer |-> NoEndpoint, age |-> 0]
                                   ELSE l[x]],
              g_id |-> g + 1]

add_playing_peer_postinc(l, g, c) ==
    IF c \in DOMAIN l
    THEN [ret |-> 0, list |-> l, g_id |-> g]
    ELSE [ret |-> g + 1,
          list |-> [x \in (DOMAIN l) \cup {c} |->
                      IF x = c THEN [id |-> g, udp_peer |-> NoEndpoint, age |-> 0]
                               ELSE l[x]],
          g_id |-> g + 1]

add_playing_peer_overwrite(l, g, c) ==
    [ret |-> g + 1,
     list |-> [x \in (DOMAIN l) \cup {c} |->
                 IF x = c THEN [id |-> g + 1, udp_peer |-> NoEndpoint, age |-> 0]
                          ELSE l[x]],
     g_id |-> g + 1]

add_playing_peer(l, g, c) ==
    IF c \in DOMAIN l
    THEN [ret |-> 0, list |-> l, g_id |-> g]
    ELSE [ret |-> g + 1,
          list |-> [x \in (DOMAIN l) \cup {c} |->
                      IF x = c THEN [id |-> g + 1, udp_peer |-> NoEndpoint, age |-> 0]
                               ELSE l[x]],
          g_id |-> g + 1]

\* lines 370-381
remove_playing_peer(l, c) == [x \in (DOMAIN l) \ {c} |-> l[x]]

\* peer->remote_endpoint() (the overload without error_code) throws
\* asio::system_error when the socket is closed (bad_descriptor); when the
\* connection has been reset, getpeername fails with not_connected on the
\* builds that ask the system, and the call returns on those that cache
\* the endpoint: both outcomes are kept
RemoteEndpointThrows(c) ==
    IF chan[c] # "open" THEN {TRUE}
    ELSE IF ~connected[c] THEN {TRUE, FALSE}
    ELSE {FALSE}

\* lines 345-352: the registry and the sockets after close_session(peer)
\* on registry l.  Line 347 may throw before anything is done; on a reset
\* connection line 379 or peer->shutdown (349, not_connected) throw after
\* the record's removal and before peer->close()
close_session(l, c) ==
    LET removed == remove_playing_peer(l, c)
        closed == [chan EXCEPT ![c] = "closed"]
    IN  IF chan[c] # "open"
        THEN { [list |-> l, chan |-> chan] }
        ELSE IF ~connected[c]
        THEN { [list |-> l, chan |-> chan],
               [list |-> removed, chan |-> chan],
               [list |-> removed, chan |-> closed] }
        ELSE { [list |-> removed, chan |-> closed] }

\* The socket of a channel is owned through shared_ptr by its read_loop
\* frame (208), its heartbeat_loop frame (268) and, as the key, its record:
\* when the last of them goes, ~tcp_socket closes the descriptor.  ch, l, r
\* and h are the channels, registry, read_loop and heartbeat_loop positions
\* a step leaves.
released(ch, l, r, h) ==
    [c \in Chan |->
        IF /\ ch[c] = "open"
           /\ r[c] = "done"
           /\ h[c] \in {"none", "done"}
           /\ c \notin DOMAIN l
        THEN "closed"
        ELSE ch[c]]

\* lines 383-396: the records find_if can return for id
fill_targets(l, id) == {c \in DOMAIN l : l[c].id = id}

\* line 394
fill_udp_peer(l, c, udp_peer) == [l EXCEPT ![c].udp_peer = udp_peer]

-----------------------------------------------------------------------------
(* start_server / stop_server, called on the control thread *)

\* lines 150-183, every bind succeeding
StartServer ==
    /\ ~ioc
    /\ starts < MaxStarts
    /\ ioc' = TRUE
    /\ starts' = starts + 1
    /\ acc' = "accept"
    /\ udp' = "recv"
    /\ net_thread' = "running"
    /\ capturing' = TRUE
    /\ udp_server' = TRUE
    /\ ctl' = "started"
    /\ UNCHANGED <<resets, g_id, playing_peer_list, chan, connected, rl, rl_id,
                   hb, posted, broadcasts, histVars>>
    /\ UNCHANGED rl_cmd
    /\ NoRunCtl

\* lines 152-159 when make_address, the acceptor's constructor, bind or
\* listen throws: _ioc has been assigned (152) and the exception leaves
\* start_server
StartServerTcpFails ==
    /\ ~ioc
    /\ starts < MaxStarts
    /\ ioc' = TRUE
    /\ starts' = starts + 1
    /\ ctl' = "start_failed"
    /\ UNCHANGED <<net_thread, capturing, udp_server>>
    /\ UNCHANGED <<resets, g_id, playing_peer_list, chan, connected, acc, udp, rl,
                   rl_id, rl_cmd, hb, posted, broadcasts, histVars>>
    /\ NoRunCtl

\* lines 152-171 when the datagram socket's constructor or bind throws:
\* the capture has been started (161), accept_tcp_loop spawned (162) on an
\* io_context no thread runs, and _udp_server assigned (170)
StartServerUdpFails ==
    /\ ~ioc
    /\ starts < MaxStarts
    /\ ioc' = TRUE
    /\ starts' = starts + 1
    /\ acc' = "accept"
    /\ capturing' = TRUE
    /\ udp_server' = TRUE
    /\ ctl' = "start_failed"
    /\ UNCHANGED net_thread
    /\ UNCHANGED <<resets, g_id, playing_peer_list, chan, connected, udp, rl,
                   rl_id, rl_cmd, hb, posted, broadcasts, histVars>>
    /\ NoRunCtl

\* stop_server without line 192
StopServerKeepsRegistry ==
    /\ ioc
    /\ net_thread = "running"
    /\ ioc' = FALSE
    /\ net_thread' = "idle"
    /\ capturing' = FALSE
    /\ udp_server' = FALSE
    /\ ctl' = "stopped"
    /\ chan' = [c \in Chan |-> "free"]
    /\ connected' = [c \in Chan |-> FALSE]
    /\ rl' = [c \in Chan |-> "none"]
    /\ rl_id' = [c \in Chan |-> 0]
    /\ rl_cmd' = [c \in Chan |-> cmd_none]
    /\ hb' = [c \in Chan |-> "none"]
    /\ acked_id' = [c \in Chan |-> 0]
    /\ hb_spawned' = [c \in Chan |-> 0]
    /\ acc' = "none"
    /\ udp' = "none"
    /\ posted' = <<>>
    /\ UNCHANGED <<starts, resets, g_id, playing_peer_list, broadcasts, issued,
                   last_inv>>
    /\ NoRunCtl

\* lines 185-196 on a running server: the io_context is stopped and
\* destroyed with every coroutine frame and handler it still holds
StopServer ==
    /\ ioc
    /\ net_thread = "running"
    /\ ioc' = FALSE
    /\ net_thread' = "idle"
    /\ capturing' = FALSE
    /\ udp_server' = FALSE
    /\ ctl' = "stopped"
    /\ playing_peer_list' = <<>>
    /\ chan' = [c \in Chan |-> "free"]
    /\ connected' = [c \in Chan |-> FALSE]
    /\ rl' = [c \in Chan |-> "none"]
    /\ rl_id' = [c \in Chan |-> 0]
    /\ rl_cmd' = [c \in Chan |-> cmd_none]
    /\ hb' = [c \in Chan |-> "none"]
    /\ acked_id' = [c \in Chan |-> 0]
    /\ hb_spawned' = [c \in Chan |-> 0]
    /\ acc' = "none"
    /\ udp' = "none"
    /\ posted' = <<>>
    /\ UNCHANGED <<starts, resets, g_id, broadcasts, issued, last_inv>>
    /\ NoRunCtl

\* lines 185-190 when _net_thread is not joinable (never started, joined
\* by an earlier stop_server, or start_server left before line 178):
\* _ioc->stop() if there is an io_context, then std::thread::join throws
\* std::system_error and lines 191-195 are not reached
StopServerNotJoinable ==
    /\ net_thread = "idle"
    /\ ctl' = "join_failed"
    /\ UNCHANGED <<net_thread, capturing, udp_server>>
    /\ UNCHANGED mainVars_but_ran
    /\ NoRunCtl

-----------------------------------------------------------------------------
(* accept_tcp_loop, lines 308-328 *)

FreeChan == {c \in Chan : chan[c] = "free"}

\* a connection is accepted and its read_loop spawned
AcceptOk ==
    /\ io_running
    /\ acc = "accept"
    /\ FreeChan # {}
    /\ LET c == CHOOSE x \in FreeChan : \A y \in FreeChan : x <= y
       IN  /\ chan' = [chan EXCEPT ![c] = "open"]
           /\ connected' = [connected EXCEPT ![c] = TRUE]
           /\ rl' = [rl EXCEPT ![c] = "read"]
    /\ UNCHANGED <<ioc, starts, resets, g_id, playing_peer_list, acc, udp, rl_id, hb,
                   posted, broadcasts, histVars>>
    /\ UNCHANGED rl_cmd
    /\ NoRun

\* async_accept completes with an error (313-316), or the accepted
\* connection is already reset and remote_endpoint() throws at line 318
AcceptEnd ==
    /\ io_running
    /\ acc = "accept"
    /\ acc' = "done"
    /\ UNCHANGED <<ioc, starts, resets, g_id, playing_peer_list, chan, connected, udp,
                   rl, rl_id, hb, posted, broadcasts, histVars>>
    /\ UNCHANGED rl_cmd
    /\ NoRun

\* the peer resets the connection (RST) at any time
PeerReset(c) ==
    /\ io_running
    /\ chan[c] = "open"
    /\ connected[c]
    /\ resets < MaxResets
    /\ resets' = resets + 1
    /\ connected' = [connected EXCEPT ![c] = FALSE]
    /\ UNCHANGED <<ioc, starts, g_id, playing_peer_list, chan, acc, udp, rl,
                   rl_id, hb, posted, broadcasts, histVars>>
    /\ UNCHANGED rl_cmd
    /\ NoRun

-----------------------------------------------------------------------------
(* read_loop(peer), lines 208-266 *)

\* line 212 completes with cmd_get_format; the response write is started.
\* (Each pass of the loop sets cmd to cmd_none at line 211 before it reads.)
ReadGetFormat(c) ==
    /\ io_running
    /\ rl[c] = "read"
    /\ chan[c] = "open"
    /\ rl' = [rl EXCEPT ![c] = "write_format"]
    /\ UNCHANGED <<ioc, starts, resets, g_id, playing_peer_list, chan, connected, acc,
                   udp, rl_id, hb, posted, broadcasts, histVars>>
    /\ rl_cmd' = [rl_cmd EXCEPT ![c] = cmd_get_format]
    /\ NoRun

\* line 229 completes
WriteFormatOk(c) ==
    /\ io_running
    /\ rl[c] = "write_format"
    /\ chan[c] = "open"
    /\ connected[c]
    /\ rl' = [rl EXCEPT ![c] = "read"]
    /\ UNCHANGED <<ioc, starts, resets, g_id, playing_peer_list, chan, connected, acc,
                   udp, rl_id, hb, posted, broadcasts, histVars>>
    /\ rl_cmd' = [rl_cmd EXCEPT ![c] = cmd_none]
    /\ NoRun

\* line 229 completes with an error: lines 230-234
WriteFormatErr(c) ==
    /\ io_running
    /\ rl[c] = "write_format"
    /\ chan[c] # "open" \/ ~connected[c]
    /\ \E o \in close_session(playing_peer_list, c) :
          /\ playing_peer_list' = o.list
          /\ chan' = released(o.chan, o.list, [rl EXCEPT ![c] = "done"], hb)
    /\ rl' = [rl EXCEPT ![c] = "done"]
    /\ UNCHANGED <<ioc, starts, resets, g_id, connected, acc, udp, rl_id, hb, posted,
                   broadcasts, histVars>>
    /\ UNCHANGED rl_cmd
    /\ NoRun

\* line 212 completes with cmd_start_play: lines 235-247 up to the
\* suspension of the acknowledgment write.  add_playing_peer's log lines
\* (357, 366) call remote_endpoint(), which may throw and end the coroutine
\* with the registry as add_playing_peer left it; a result <= 0 leads to
\* close_session (237-242)
ReadStartPlay(c) ==
    /\ io_running
    /\ rl[c] = "read"
    /\ chan[c] = "open"
    /\ LET r == add_playing_peer(playing_peer_list, g_id, c)
       IN  /\ r.g_id <= MaxIds
           /\ g_id' = r.g_id
           /\ issued' = IF r.g_id # g_id
                        THEN Append(issued, [id |-> r.list[c].id, run |-> starts,
                                             peer |-> c])
                        ELSE issued
           /\ \E throws \in RemoteEndpointThrows(c) :
                 IF throws
                 THEN /\ playing_peer_list' = r.list
                      /\ chan' = released(chan, r.list, [rl EXCEPT ![c] = "done"], hb)
                      /\ rl' = [rl EXCEPT ![c] = "done"]
                      /\ UNCHANGED rl_id
                 ELSE IF r.ret <= 0
                 THEN /\ \E o \in close_session(r.list, c) :
                            /\ playing_peer_list' = o.list
                            /\ chan' = released(o.chan, o.list,
                                                [rl EXCEPT ![c] = "done"], hb)
                      /\ rl' = [rl EXCEPT ![c] = "done"]
                      /\ UNCHANGED rl_id
                 ELSE /\ playing_peer_list' = r.list
                      /\ rl' = [rl EXCEPT ![c] = "write_ack"]
                      /\ rl_id' = [rl_id EXCEPT ![c] = r.ret]
                      /\ UNCHANGED chan
    /\ UNCHANGED <<ioc, starts, resets, connected, acc, udp, hb, posted,
                   broadcasts, acked_id, hb_spawned, last_inv>>
    /\ rl_cmd' = [rl_cmd EXCEPT ![c] = cmd_start_play]
    /\ NoRun

\* line 247 completes: (cmd_start_play, id) has been written; line 253
\* spawns heartbeat_loop, which runs to its first timer wait
WriteAckOk(c) ==
    /\ io_running
    /\ rl[c] = "write_ack"
    /\ chan[c] = "open"
    /\ connected[c]
    /\ rl' = [rl EXCEPT ![c] = "read"]
    /\ hb' = [hb EXCEPT ![c] = "wait"]
    /\ acked_id' = [acked_id EXCEPT ![c] = rl_id[c]]
    /\ hb_spawned' = [hb_spawned EXCEPT ![c] = @ + 1]
    /\ rl_id' = [rl_id EXCEPT ![c] = 0]
    /\ UNCHANGED <<ioc, starts, resets, g_id, playing_peer_list, chan, connected, acc,
                   udp, posted, broadcasts, issued, last_inv>>
    /\ rl_cmd' = [rl_cmd EXCEPT ![c] = cmd_none]
    /\ NoRun

\* line 247 completes with an error: lines 248-252
WriteAckErr(c) ==
    /\ io_running
    /\ rl[c] = "write_ack"
    /\ chan[c] # "open" \/ ~connected[c]
    /\ \E o \in close_session(playing_peer_list, c) :
          /\ playing_peer_list' = o.list
          /\ chan' = released(o.chan, o.list, [rl EXCEPT ![c] = "done"], hb)
    /\ rl' = [rl EXCEPT ![c] = "done"]
    /\ rl_id' = [rl_id EXCEPT ![c] = 0]
    /\ UNCHANGED <<ioc, starts, resets, g_id, connected, acc, udp, hb, posted,
                   broadcasts, histVars>>
    /\ UNCHANGED rl_cmd
    /\ NoRun

\* lines 255-258: last_tick = now
refresh_last_tick_insert(l, c) ==
    [x \in (DOMAIN l) \cup {c} |->
        IF x = c THEN [id |-> 0, udp_peer |-> NoEndpoint, age |-> 0]
        ELSE l[x]]

refresh_last_tick(l, c) ==
    IF c \in DOMAIN l THEN [l EXCEPT ![c].age = 0] ELSE l

\* line 212 completes with cmd_heartbeat
ReadHeartbeat(c) ==
    /\ io_running
    /\ rl[c] = "read"
    /\ chan[c] = "open"
    /\ playing_peer_list' = refresh_last_tick(playing_peer_list, c)
    /\ UNCHANGED <<ioc, starts, resets, g_id, chan, connected, acc, udp, rl, rl_id, hb,
                   posted, broadcasts, histVars>>
    /\ rl_cmd' = [rl_cmd EXCEPT ![c] = cmd_none]
    /\ NoRun

\* line 212 completes with any other command word: lines 259-263
ReadUnknown(c) ==
    /\ io_running
    /\ rl[c] = "read"
    /\ chan[c] = "open"
    /\ \E o \in close_session(playing_peer_list, c) :
          /\ playing_peer_list' = o.list
          /\ chan' = released(o.chan, o.list, [rl EXCEPT ![c] = "done"], hb)
    /\ rl' = [rl EXCEPT ![c] = "done"]
    /\ UNCHANGED <<ioc, starts, resets, g_id, connected, acc, udp, rl_id, hb, posted,
                   broadcasts, histVars>>
    /\ rl_cmd' = [rl_cmd EXCEPT ![c] = cmd_unknown]
    /\ NoRun

\* line 212 completes with an error (end of file from a peer that closed,
\* connection_reset, or operation_aborted once the heartbeat supervisor
\* has closed the socket): lines 213-217
ReadError(c) ==
    /\ io_running
    /\ rl[c] = "read"
    /\ \E o \in close_session(playing_peer_list, c) :
          /\ playing_peer_list' = o.list
          /\ chan' = released(o.chan, o.list, [rl EXCEPT ![c] = "done"], hb)
    /\ rl' = [rl EXCEPT ![c] = "done"]
    /\ UNCHANGED <<ioc, starts, resets, g_id, connected, acc, udp, rl_id, hb, posted,
                   broadcasts, histVars>>
    /\ rl_cmd' = [rl_cmd EXCEPT ![c] = cmd_none]
    /\ NoRun

-----------------------------------------------------------------------------
(* heartbeat_loop(peer), lines 268-306.  The timer is never cancelled, so  *)
(* the branch of line 277 is not taken.                                    *)

\* line 291
timed_out(info) == info.age > HeartbeatTimeout

\* line 276 completes: lines 281-298 up to the next suspension
HbTimer(c) ==
    /\ io_running
    /\ hb[c] = "due"
    /\ \/ /\ chan[c] # "open"
          /\ hb' = [hb EXCEPT ![c] = "done"]
          /\ UNCHANGED <<playing_peer_list, chan>>
       \/ /\ chan[c] = "open"
          /\ c \notin DOMAIN playing_peer_list
          /\ \E o \in close_session(playing_peer_list, c) :
                /\ playing_peer_list' = o.list
                /\ chan' = released(o.chan, o.list, rl, [hb EXCEPT ![c] = "done"])
          /\ hb' = [hb EXCEPT ![c] = "done"]
       \/ /\ chan[c] = "open"
          /\ c \in DOMAIN playing_peer_list
          /\ timed_out(playing_peer_list[c])
          \* remote_endpoint() of line 292 and of close_session throw alike
          /\ \E o \in close_session(playing_peer_list, c) :
                /\ playing_peer_list' = o.list
                /\ chan' = released(o.chan, o.list, rl, [hb EXCEPT ![c] = "done"])
          /\ hb' = [hb EXCEPT ![c] = "done"]
       \/ /\ chan[c] = "open"
          /\ c \in DOMAIN playing_peer_list
          /\ ~timed_out(playing_peer_list[c])
          /\ hb' = [hb EXCEPT ![c] = "write"]
          /\ UNCHANGED <<playing_peer_list, chan>>
    /\ UNCHANGED <<ioc, starts, resets, g_id, connected, acc, udp, rl, rl_id, posted,
                   broadcasts, histVars>>
    /\ UNCHANGED rl_cmd
    /\ NoRun

\* line 298 completes: cmd_heartbeat has been written; line 275 re-arms
HbWriteOk(c) ==
    /\ io_running
    /\ hb[c] = "write"
    /\ chan[c] = "open"
    /\ connected[c]
    /\ hb' = [hb EXCEPT ![c] = "wait"]
    /\ UNCHANGED <<ioc, starts, resets, g_id, playing_peer_list, chan, connected, acc,
                   udp, rl, rl_id, posted, broadcasts, histVars>>
    /\ UNCHANGED rl_cmd
    /\ NoRun

\* line 298 completes with an error: lines 299-303
HbWriteErr(c) ==
    /\ io_running
    /\ hb[c] = "write"
    /\ chan[c] # "open" \/ ~connected[c]
    /\ \E o \in close_session(playing_peer_list, c) :
          /\ playing_peer_list' = o.list
          /\ chan' = released(o.chan, o.list, rl, [hb EXCEPT ![c] = "done"])
    /\ hb' = [hb EXCEPT ![c] = "done"]
    /\ UNCHANGED <<ioc, starts, resets, g_id, connected, acc, udp, rl, rl_id, posted,
                   broadcasts, histVars>>
    /\ UNCHANGED rl_cmd
    /\ NoRun

\* steady_clock advances by one heartbeat interval: every armed timer
\* expires.  Expired timers and pending writes are served before the clock
\* advances again.
Tick ==
    /\ io_running
    /\ \A c \in Chan : /\ hb[c] \notin {"due", "write"}
                       /\ rl[c] \notin {"write_format", "write_ack"}
    /\ hb' = [c \in Chan |-> IF hb[c] = "wait" THEN "due" ELSE hb[c]]
    /\ playing_peer_list' =
          [c \in DOMAIN playing_peer_list |->
              [playing_peer_list[c] EXCEPT
                  !.age = Min(@ + HeartbeatInterval, AgeCap)]]
    /\ UNCHANGED <<ioc, starts, resets, g_id, chan, connected, acc, udp, rl, rl_id,
                   posted, broadcasts, histVars>>
    /\ UNCHANGED rl_cmd
    /\ NoRun

-----------------------------------------------------------------------------
(* accept_udp_loop, lines 330-343 *)

\* line 335 completes with a 4-byte datagram id from udp_peer; fill_udp_peer
\* (383-396), whose log line 395 calls remote_endpoint() on the record's
\* control channel and ends the listener when that throws
UdpRecv(id, udp_peer) ==
    /\ io_running
    /\ udp = "recv"
    /\ \/ /\ fill_targets(playing_peer_list, id) = {}
          /\ UNCHANGED <<playing_peer_list, udp>>
       \/ \E c \in fill_targets(playing_peer_list, id) :
             /\ playing_peer_list' = fill_udp_peer(playing_peer_list, c, udp_peer)
             /\ \E throws \in RemoteEndpointThrows(c) :
                   udp' = IF throws THEN "done" ELSE "recv"
    /\ UNCHANGED <<ioc, starts, resets, g_id, chan, connected, acc, rl, rl_id, hb,
                   posted, broadcasts, histVars>>
    /\ UNCHANGED rl_cmd
    /\ NoRun

\* line 335 completes with an error: lines 336-339
UdpRecvErr ==
    /\ io_running
    /\ udp = "recv"
    /\ udp' = "done"
    /\ UNCHANGED <<ioc, starts, resets, g_id, playing_peer_list, chan, connected, acc,
                   rl, rl_id, hb, posted, broadcasts, histVars>>
    /\ UNCHANGED rl_cmd
    /\ NoRun

-----------------------------------------------------------------------------
(* broadcast_audio_data, lines 398-427 *)

\* the loop of lines 412-418, each segment by its position and size
RECURSIVE SegmentList(_, _, _)
SegmentList(cnt, pos, mss) ==
    IF pos >= cnt THEN <<>>
    ELSE LET real_seg_size == RealSegSize(cnt, pos, mss)
         IN  <<[begin |-> pos, size |-> real_seg_size]>>
                 \o SegmentList(cnt, pos + real_seg_size, mss)

\* the calls the audio collaborator makes: <<count, block_align>>
BroadcastInputs == {<<0, 4>>, <<2 * 1464, 4>>}

\* _ioc->post: handlers posted to a single-threaded io_context run in the
\* order they were posted
post_front(q, task) == <<task>> \o q

post(q, task) == Append(q, task)

\* a producer thread calls broadcast_audio_data(data, cnt, ba) between
\* start_loopback_recording and audio_manager::stop
BroadcastAudioData(cnt, ba) ==
    /\ capturing
    /\ broadcasts < MaxBroadcasts
    /\ broadcasts' = broadcasts + 1
    /\ IF cnt <= 0
       THEN UNCHANGED posted
       ELSE posted' = post(posted, [inv |-> broadcasts + 1, run |-> starts,
                                    segs |-> SegmentList(cnt, 0, MaxSegSize(ba))])
    /\ UNCHANGED <<ioc, starts, resets, g_id, playing_peer_list, chan, connected, acc,
                   udp, rl, rl_id, hb, histVars>>
    /\ UNCHANGED rl_cmd
    /\ NoRun

\* lines 421-425 for one peer: one async_send_to per segment, in order
sends_of(task, info) ==
    [i \in 1..Len(task.segs) |->
        [inv |-> task.inv, begin |-> task.segs[i].begin,
         size |-> task.segs[i].size, to |-> info.udp_peer]]

\* the io_context thread runs the oldest posted task: lines 421-425
RunPosted ==
    /\ io_running
    /\ posted # <<>>
    /\ posted' = Tail(posted)
    /\ last_inv' = Head(posted).inv
    /\ ran' = [c \in DOMAIN playing_peer_list |->
                 sends_of(Head(posted), playing_peer_list[c])]
    /\ UNCHANGED <<ioc, starts, resets, g_id, playing_peer_list, chan, connected, acc,
                   udp, rl, rl_id, hb, broadcasts, issued, acked_id,
                   hb_spawned>>
    /\ UNCHANGED <<rl_cmd, segVars, ctlVars, thrVars, cliVars>>

-----------------------------------------------------------------------------
\* The server without its audio producer: no step of Next reads what
\* broadcast_audio_data and its posted tasks write.
Next ==
    \/ StartServer
    \/ StopServer
    \/ AcceptOk
    \/ AcceptEnd
    \/ \E c \in Chan : PeerReset(c)
    \/ \E c \in Chan : ReadGetFormat(c)
    \/ \E c \in Chan : WriteFormatOk(c)
    \/ \E c \in Chan : WriteFormatErr(c)
    \/ \E c \in Chan : ReadError(c)
    \/ \E c \in Chan : ReadUnknown(c)
    \/ \E c \in Chan : ReadHeartbeat(c)
    \/ \E c \in Chan : ReadStartPlay(c)
    \/ \E c \in Chan : WriteAckOk(c)
    \/ \E c \in Chan : WriteAckErr(c)
    \/ \E c \in Chan : HbTimer(c)
    \/ \E c \in Chan : HbWriteOk(c)
    \/ \E c \in Chan : HbWriteErr(c)
    \/ Tick
    \/ \E id \in 0..MaxIds, e \in Endpoints : UdpRecv(id, e)
    \/ UdpRecvErr

Spec == Init /\ [][Next]_vars

\* The server with its audio producer, within one heartbeat interval (the
\* clock does not advance, so no heartbeat timer expires).
BcastNext ==
    \/ StartServer
    \/ StopServer
    \/ AcceptOk
    \/ AcceptEnd
    \/ \E c \in Chan : PeerReset(c)
    \/ \E c \in Chan : ReadGetFormat(c)
    \/ \E c \in Chan : WriteFormatOk(c)
    \/ \E c \in Chan : WriteFormatErr(c)
    \/ \E c \in Chan : ReadError(c)
    \/ \E c \in Chan : ReadUnknown(c)
    \/ \E c \in Chan : ReadHeartbeat(c)
    \/ \E c \in Chan : ReadStartPlay(c)
    \/ \E c \in Chan : WriteAckOk(c)
    \/ \E c \in Chan : WriteAckErr(c)
    \/ \E id \in 0..MaxIds, e \in Endpoints : UdpRecv(id, e)
    \/ UdpRecvErr
    \/ \E in \in BroadcastInputs : BroadcastAudioData(in[1], in[2])
    \/ RunPosted

BcastSpec == Init /\ [][BcastNext]_vars

\* The control thread's start_server / stop_server calls, failing ones
\* included, around sessions that register and a producer that broadcasts.
CtlNext ==
    \/ StartServer
    \/ StartServerTcpFails
    \/ StartServerUdpFails
    \/ StopServer
    \/ StopServerNotJoinable
    \/ AcceptOk
    \/ \E c \in Chan : ReadError(c)
    \/ \E c \in Chan : ReadStartPlay(c)
    \/ \E c \in Chan : WriteAckOk(c)
    \/ \E id \in 0..MaxIds, e \in Endpoints : UdpRecv(id, e)
    \/ \E in \in BroadcastInputs : BroadcastAudioData(in[1], in[2])
    \/ RunPosted

CtlSpec == Init /\ [][CtlNext]_vars

\* The segmenter alone, on every drawn payload length and block alignment.
SegNext == SegEnter \/ SegLoop \/ SegPost

SegSpec == SegInit /\ [][SegNext]_vars

-----------------------------------------------------------------------------
(* The threads.  start_server and stop_server run on the control thread,   *)
(* broadcast_audio_data on the audio collaborator's capture thread, and    *)
(* every coroutine and posted handler on the thread of _net_thread, inside *)
(* _ioc->run() (lines 178-180).  Each handler that reaches the registry is *)
(* split into its entry, where the registry is accessed, and its return.   *)

\* what the thread-level steps leave alone
thrRest == <<chan, connected, resets, rl, rl_id, rl_cmd, hb, acked_id,
             hb_spawned, last_inv, ran, segVars, cliVars>>

\* lines 150-183 on the control thread; no other thread of the server
\* exists before line 178
ThreadStartServer ==
    /\ ~ioc
    /\ stop_pc = "none"
    /\ starts < MaxStarts
    /\ ioc' = TRUE
    /\ starts' = starts + 1
    /\ acc' = "accept"
    /\ udp' = "recv"
    /\ net_thread' = "running"
    /\ capturing' = TRUE
    /\ udp_server' = TRUE
    /\ ctl' = "started"
    /\ exec_pc' = "idle"
    /\ UNCHANGED <<g_id, playing_peer_list, posted, broadcasts, issued, stop_pc,
                   access, thrRest>>

\* io_context::run() dispatches a handler only while the io_context has
\* not been stopped
dispatching == exec_pc = "idle" /\ stop_pc = "none"

\* read_loop's START_PLAY branch enters add_playing_peer (line 236)
ExecAddPlayingPeer(c) ==
    /\ dispatching
    /\ LET r == add_playing_peer(playing_peer_list, g_id, c)
       IN  /\ r.g_id <= MaxIds
           /\ g_id' = r.g_id
           /\ playing_peer_list' = r.list
           /\ issued' = IF r.g_id # g_id
                        THEN Append(issued, [id |-> r.list[c].id, run |-> starts,
                                             peer |-> c])
                        ELSE issued
    /\ exec_pc' = "task"
    /\ access' = access \cup {"executor"}
    /\ UNCHANGED <<ioc, starts, acc, udp, posted, broadcasts, ctlVars, stop_pc,
                   thrRest>>

\* read_loop or heartbeat_loop enters remove_playing_peer through
\* close_session (line 348)
ExecRemovePlayingPeer(c) ==
    /\ dispatching
    /\ c \in DOMAIN playing_peer_list
    /\ playing_peer_list' = remove_playing_peer(playing_peer_list, c)
    /\ exec_pc' = "task"
    /\ access' = access \cup {"executor"}
    /\ UNCHANGED <<ioc, starts, g_id, acc, udp, posted, broadcasts, issued,
                   ctlVars, stop_pc, thrRest>>

\* accept_udp_loop enters fill_udp_peer (lines 385-394)
ExecFillUdpPeer(id, udp_peer) ==
    /\ dispatching
    /\ \/ /\ fill_targets(playing_peer_list, id) = {}
          /\ UNCHANGED playing_peer_list
       \/ \E c \in fill_targets(playing_peer_list, id) :
             playing_peer_list' = fill_udp_peer(playing_peer_list, c, udp_peer)
    /\ exec_pc' = "task"
    /\ access' = access \cup {"executor"}
    /\ UNCHANGED <<ioc, starts, g_id, acc, udp, posted, broadcasts, issued,
                   ctlVars, stop_pc, thrRest>>

\* the oldest posted task is entered: it iterates the registry (line 422)
ExecRunPosted ==
    /\ dispatching
    /\ posted # <<>>
    /\ posted' = Tail(posted)
    /\ exec_pc' = "task"
    /\ access' = access \cup {"executor"}
    /\ UNCHANGED <<ioc, starts, g_id, playing_peer_list, acc, udp, broadcasts,
                   issued, ctlVars, stop_pc, thrRest>>

\* the handler suspends or returns to io_context::run()
ExecReturn ==
    /\ exec_pc = "task"
    /\ exec_pc' = "idle"
    /\ access' = access \ {"executor"}
    /\ UNCHANGED <<ioc, starts, g_id, playing_peer_list, acc, udp, posted,
                   broadcasts, issued, ctlVars, stop_pc, thrRest>>

\* io_context::run() returns once the io_context is stopped, and the
\* thread's function (lines 178-180) ends
ExecExit ==
    /\ exec_pc = "idle"
    /\ stop_pc # "none"
    /\ exec_pc' = "exited"
    /\ UNCHANGED <<ioc, starts, g_id, playing_peer_list, acc, udp, posted,
                   broadcasts, issued, ctlVars, stop_pc, access, thrRest>>

\* the capture thread runs broadcast_audio_data (398-427) to its end: it
\* segments its argument and posts the task, and reads _ioc only
ProducerBroadcast(cnt, ba) ==
    /\ capturing
    /\ broadcasts < MaxBroadcasts
    /\ broadcasts' = broadcasts + 1
    /\ IF cnt <= 0
       THEN UNCHANGED posted
       ELSE posted' = post(posted, [inv |-> broadcasts + 1, run |-> starts,
                                    segs |-> SegmentList(cnt, 0, MaxSegSize(ba))])
    /\ UNCHANGED <<ioc, starts, g_id, playing_peer_list, acc, udp, issued,
                   ctlVars, thrVars, thrRest>>

\* lines 187-189 on the control thread
StopIoc ==
    /\ ioc
    /\ net_thread = "running"
    /\ stop_pc = "none"
    /\ stop_pc' = "stopped_ioc"
    /\ UNCHANGED <<ioc, starts, g_id, playing_peer_list, acc, udp, posted,
                   broadcasts, issued, ctlVars, exec_pc, access, thrRest>>

\* std::thread::join returns when the thread's function has ended
joined_nowait(e) == TRUE

joined(e) == e = "exited"

\* line 190
StopJoin ==
    /\ stop_pc = "stopped_ioc"
    /\ joined(exec_pc)
    /\ stop_pc' = "joined"
    /\ net_thread' = "idle"
    /\ UNCHANGED <<ioc, starts, g_id, playing_peer_list, acc, udp, posted,
                   broadcasts, issued, capturing, udp_server, ctl, exec_pc,
                   access, thrRest>>

\* line 191: the capture is stopped; no broadcast_audio_data call follows
StopAudio ==
    /\ stop_pc = "joined"
    /\ stop_pc' = "audio_stopped"
    /\ capturing' = FALSE
    /\ UNCHANGED <<ioc, starts, g_id, playing_peer_list, acc, udp, posted,
                   broadcasts, issued, net_thread, udp_server, ctl, exec_pc,
                   access, thrRest>>

\* line 192 is entered: the control thread clears the registry
StopClearBegin ==
    /\ stop_pc = "audio_stopped"
    /\ stop_pc' = "clearing"
    /\ access' = access \cup {"control"}
    /\ playing_peer_list' = <<>>
    /\ UNCHANGED <<ioc, starts, g_id, acc, udp, posted, broadcasts, issued,
                   ctlVars, exec_pc, thrRest>>

\* line 192 returns
StopClearEnd ==
    /\ stop_pc = "clearing"
    /\ stop_pc' = "cleared"
    /\ access' = access \ {"control"}
    /\ UNCHANGED <<ioc, starts, g_id, playing_peer_list, acc, udp, posted,
                   broadcasts, issued, ctlVars, exec_pc, thrRest>>

\* lines 193-195: the datagram socket and the io_context, with the frames
\* and handlers it holds, are destroyed
StopReset ==
    /\ stop_pc = "cleared"
    /\ stop_pc' = "none"
    /\ exec_pc' = "none"
    /\ udp_server' = FALSE
    /\ ioc' = FALSE
    /\ ctl' = "stopped"
    /\ acc' = "none"
    /\ udp' = "none"
    /\ posted' = <<>>
    /\ UNCHANGED <<starts, g_id, playing_peer_list, broadcasts, issued,
                   net_thread, capturing, access, thrRest>>

\* The three threads of a server interleaved at the granularity of registry
\* accesses.
ThreadNext ==
    \/ ThreadStartServer
    \/ \E c \in Chan : ExecAddPlayingPeer(c)
    \/ \E c \in Chan : ExecRemovePlayingPeer(c)
    \/ \E id \in 0..MaxIds, e \in Endpoints : ExecFillUdpPeer(id, e)
    \/ ExecRunPosted
    \/ ExecReturn
    \/ ExecExit
    \/ \E in \in BroadcastInputs : ProducerBroadcast(in[1], in[2])
    \/ StopIoc
    \/ StopJoin
    \/ StopAudio
    \/ StopClearBegin
    \/ StopClearEnd
    \/ StopReset

ThreadSpec == Init /\ [][ThreadNext]_vars

-----------------------------------------------------------------------------
(* A manager used as client: start_client, client_connect,                 *)
(* client_heartbeat_loop, client_udp_loop, stop_client (lines 430-622).    *)
(* The server's answers and the outcome of every read and write are        *)
(* inputs.                                                                 *)

\* what the client's steps leave alone
cliRest == <<starts, g_id, playing_peer_list, chan, connected, resets, acc, udp,
             rl, rl_id, rl_cmd, hb, posted, broadcasts, histVars, ran, segVars,
             capturing, udp_server, ctl, thrVars>>

\* the command words a peer can send
Cmds == {cmd_none, cmd_get_format, cmd_start_play, cmd_heartbeat, cmd_unknown}

\* the blob sizes a GET_FORMAT response can announce
FormatSizes == 0..MaxFormatSize

\* line 555, negated
format_response_any_size(cmd, size) == ~(cmd # cmd_get_format)

format_response_valid(cmd, size) == ~(cmd # cmd_get_format \/ size <= 0)

\* line 593, negated
play_response_valid(cmd) == ~(cmd # cmd_start_play)

\* lines 430-460: the thread is started and client_connect spawned; it runs
\* to the async_connect of line 528
StartClient ==
    /\ ~ioc
    /\ net_thread = "idle"
    /\ starts < MaxStarts
    /\ starts' = starts + 1
    /\ ioc' = TRUE
    /\ net_thread' = "running"
    /\ cl_pc' = "connect"
    /\ cl_format' = [cmd |-> cmd_none, size |-> 0]
    /\ cl_play' = [cmd |-> cmd_none, id |-> 0]
    /\ udp_id' = 0
    /\ cl_id' = 0
    /\ cl_sent' = <<>>
    /\ cl_played' = 0
    /\ UNCHANGED <<cl_hb, cl_udp>>
    /\ UNCHANGED <<g_id, playing_peer_list, chan, connected, resets, acc, udp,
                   rl, rl_id, rl_cmd, hb, posted, broadcasts, histVars, ran,
                   segVars, capturing, udp_server, ctl, thrVars>>

\* line 528 completes: lines 529-539
ClientConnected(ok) ==
    /\ io_running
    /\ cl_pc = "connect"
    /\ cl_pc' = IF ok THEN "write_get_format" ELSE "returned"
    /\ UNCHANGED <<cl_format, cl_play, udp_id, cl_hb, cl_udp, cl_id, cl_sent,
                   cl_played>>
    /\ UNCHANGED <<ioc, net_thread, cliRest>>

\* line 539 completes: lines 540-548
ClientWroteGetFormat(ok) ==
    /\ io_running
    /\ cl_pc = "write_get_format"
    /\ cl_pc' = IF ok THEN "read_format" ELSE "returned"
    /\ UNCHANGED <<cl_format, cl_play, udp_id, cl_hb, cl_udp, cl_id, cl_sent,
                   cl_played>>
    /\ UNCHANGED <<ioc, net_thread, cliRest>>

\* line 548 completes, with (cmd, size) read when there is no error:
\* lines 549-562
ClientReadFormat(ok, cmd, size) ==
    /\ io_running
    /\ cl_pc = "read_format"
    /\ IF ~ok
       THEN /\ cl_pc' = "returned"
            /\ UNCHANGED cl_format
       ELSE /\ cl_format' = [cmd |-> cmd, size |-> size]
            /\ cl_pc' = IF format_response_valid(cmd, size)
                        THEN "read_blob" ELSE "returned"
    /\ UNCHANGED <<cl_play, udp_id, cl_hb, cl_udp, cl_id, cl_sent, cl_played>>
    /\ UNCHANGED <<ioc, net_thread, cliRest>>

\* line 562 completes; the blob is parsed (568): lines 563-579
ClientReadBlob(ok, parsed) ==
    /\ io_running
    /\ cl_pc = "read_blob"
    /\ cl_pc' = IF ok /\ parsed THEN "write_start_play" ELSE "returned"
    /\ UNCHANGED <<cl_format, cl_play, udp_id, cl_hb, cl_udp, cl_id, cl_sent,
                   cl_played>>
    /\ UNCHANGED <<ioc, net_thread, cliRest>>

\* line 579 completes: lines 580-587
ClientWroteStartPlay(ok) ==
    /\ io_running
    /\ cl_pc = "write_start_play"
    /\ cl_pc' = IF ok THEN "read_play" ELSE "returned"
    /\ UNCHANGED <<cl_format, cl_play, udp_id, cl_hb, cl_udp, cl_id, cl_sent,
                   cl_played>>
    /\ UNCHANGED <<ioc, net_thread, cliRest>>

\* line 587 completes, with (cmd, id) read when there is no error: lines
\* 588-603.  The two loops are spawned; client_heartbeat_loop runs to its
\* write (471), client_udp_loop to its async_connect (494) unless
\* resolve (489) or the socket's constructor (490) throws
ClientReadPlay(ok, cmd, id) ==
    /\ io_running
    /\ cl_pc = "read_play"
    /\ IF ~ok
       THEN /\ cl_pc' = "returned"
            /\ UNCHANGED <<cl_play, udp_id, cl_hb, cl_udp, cl_id>>
       ELSE /\ cl_play' = [cmd |-> cmd, id |-> id]
            /\ IF play_response_valid(cmd)
               THEN /\ udp_id' = id
                    /\ cl_pc' = "spawned"
                    /\ cl_hb' = "write"
                    /\ cl_id' = id
                    /\ \E throws \in BOOLEAN :
                          cl_udp' = IF throws THEN "done" ELSE "connect"
               ELSE /\ cl_pc' = "returned"
                    /\ UNCHANGED <<udp_id, cl_hb, cl_udp, cl_id>>
    /\ UNCHANGED <<cl_format, cl_sent, cl_played>>
    /\ UNCHANGED <<ioc, net_thread, cliRest>>

\* client_heartbeat_loop: line 471 completes (472-479)
ClientHbWrote(ok) ==
    /\ io_running
    /\ cl_hb = "write"
    /\ cl_hb' = IF ok THEN "wait" ELSE "done"
    /\ UNCHANGED <<cl_pc, cl_format, cl_play, udp_id, cl_udp, cl_id, cl_sent,
                   cl_played>>
    /\ UNCHANGED <<ioc, net_thread, cliRest>>

\* client_heartbeat_loop: the timer of line 479 expires (467-471)
ClientHbTimer ==
    /\ io_running
    /\ cl_hb = "wait"
    /\ cl_hb' = "write"
    /\ UNCHANGED <<cl_pc, cl_format, cl_play, udp_id, cl_udp, cl_id, cl_sent,
                   cl_played>>
    /\ UNCHANGED <<ioc, net_thread, cliRest>>

\* client_udp_loop: line 494 completes, its error code is not looked at;
\* the send of the id is started (496)
ClientUdpConnected ==
    /\ io_running
    /\ cl_udp = "connect"
    /\ cl_udp' = "send"
    /\ UNCHANGED <<cl_pc, cl_format, cl_play, udp_id, cl_hb, cl_id, cl_sent,
                   cl_played>>
    /\ UNCHANGED <<ioc, net_thread, cliRest>>

\* client_udp_loop: line 496 completes, an error is logged only (497-499);
\* lines 500-509 up to the first receive
ClientUdpSent(ok) ==
    /\ io_running
    /\ cl_udp = "send"
    /\ cl_sent' = IF ok THEN Append(cl_sent, cl_id) ELSE cl_sent
    /\ cl_udp' = "receive"
    /\ UNCHANGED <<cl_pc, cl_format, cl_play, udp_id, cl_hb, cl_id, cl_played>>
    /\ UNCHANGED <<ioc, net_thread, cliRest>>

\* client_udp_loop: line 509 completes (510-513)
ClientUdpReceived(ok) ==
    /\ io_running
    /\ cl_udp = "receive"
    /\ cl_played < MaxBroadcasts
    /\ cl_played' = IF ok THEN cl_played + 1 ELSE cl_played
    /\ UNCHANGED <<cl_pc, cl_format, cl_play, udp_id, cl_hb, cl_udp, cl_id,
                   cl_sent>>
    /\ UNCHANGED <<ioc, net_thread, cliRest>>

\* lines 614-622: the io_context is stopped and destroyed with the
\* coroutine frames it holds
StopClient ==
    /\ ioc
    /\ net_thread = "running"
    /\ ioc' = FALSE
    /\ net_thread' = "idle"
    /\ cl_pc' = "none"
    /\ cl_hb' = "none"
    /\ cl_udp' = "none"
    /\ UNCHANGED <<cl_format, cl_play, udp_id, cl_id, cl_sent, cl_played>>
    /\ UNCHANGED cliRest

\* One client session after another against a peer that answers anything.
ClientNext ==
    \/ StartClient
    \/ \E ok \in BOOLEAN : ClientConnected(ok)
    \/ \E ok \in BOOLEAN : ClientWroteGetFormat(ok)
    \/ \E ok \in BOOLEAN, cmd \in Cmds, size \in FormatSizes :
          ClientReadFormat(ok, cmd, size)
    \/ \E ok \in BOOLEAN, parsed \in BOOLEAN : ClientReadBlob(ok, parsed)
    \/ \E ok \in BOOLEAN : ClientWroteStartPlay(ok)
    \/ \E ok \in BOOLEAN, cmd \in Cmds, id \in 0..MaxIds :
          ClientReadPlay(ok, cmd, id)
    \/ \E ok \in BOOLEAN : ClientHbWrote(ok)
    \/ ClientHbTimer
    \/ ClientUdpConnected
    \/ \E ok \in BOOLEAN : ClientUdpSent(ok)
    \/ \E ok \in BOOLEAN : ClientUdpReceived(ok)
    \/ StopClient

ClientSpec == Init /\ [][ClientNext]_vars

(***************************************************************************)
(* C3 as stated: for every L > 0 and every B >= 1 dividing L, the call     *)
(* produces segments that concatenate to the payload, each of length at    *)
(* most 1464 and divisible by B.  Stated of every call that has ended,     *)
(* by handing its segments to the executor or by an exception.             *)
(***************************************************************************)
SegsWellFormed ==
    /\ Flatten(seg_list) = Payload(count)
    /\ \A i \in 1..Len(seg_list) :
          /\ Len(seg_list[i]) <= 1464
          /\ Len(seg_list[i]) % block_align = 0

C3_Original ==
    (seg_pc \in {"posted", "bad_alloc"} /\ count > 0 /\ count % block_align = 0)
        => (seg_pc = "posted" /\ SegsWellFormed)

(***************************************************************************)
(* C3 amended: the same for every block alignment B with 1 <= B <= 1464    *)
(* that divides L: the call ends by posting, and the posted segments       *)
(* concatenate to the payload, each non-empty, of length at most 1464 and  *)
(* divisible by B.                                                         *)
(***************************************************************************)
C3_Segmentation ==
    (count > 0 /\ count % block_align = 0 /\ block_align <= 1464)
        => /\ seg_pc # "bad_alloc"
           /\ seg_pc = "posted" =>
                 /\ SegsWellFormed
                 /\ \A i \in 1..Len(seg_list) : Len(seg_list[i]) > 0

C3_Witness ==
    /\ seg_pc = "posted"
    /\ count = 2 * 1464
    /\ block_align = 4
    /\ Len(seg_list) = 2
    /\ SegsWellFormed

(***************************************************************************)
(* C1: every record in the registry has id > 0, and add_playing_peer never *)
(* hands out an id twice: the ids issued since the process started, in     *)
(* whatever run of the server and whether or not their records are still   *)
(* present, are positive and pairwise different, and so are the ids of the *)
(* records present together.                                               *)
(***************************************************************************)
C1_IdsUnique ==
    /\ \A c \in DOMAIN playing_peer_list : playing_peer_list[c].id > 0
    /\ \A c, d \in DOMAIN playing_peer_list :
          c # d => playing_peer_list[c].id # playing_peer_list[d].id
    /\ \A i \in 1..Len(issued) : issued[i].id > 0
    /\ \A i, j \in 1..Len(issued) : i # j => issued[i].id # issued[j].id

\* an id issued in the first run whose record is gone, and another issued
\* after stop_server / start_server whose record is present
C1_Witness ==
    /\ Len(issued) = 2
    /\ issued[1].run = 1
    /\ issued[2].run = 2
    /\ \E c \in DOMAIN playing_peer_list : playing_peer_list[c].id = issued[2].id
    /\ \A c \in DOMAIN playing_peer_list : playing_peer_list[c].id # issued[1].id

(***************************************************************************)
(* C2: each time the write of a START_PLAY response completes on a control *)
(* channel, the id written is the id of the record the registry holds for  *)
(* that channel at that moment.                                            *)
(***************************************************************************)
C2_AckIsRecordId ==
    [][\A c \in Chan :
          (rl[c] = "write_ack" /\ rl'[c] = "read")
              => /\ acked_id'[c] = rl_id[c]
                 /\ c \in DOMAIN playing_peer_list
                 /\ playing_peer_list[c].id = acked_id'[c]
                 /\ c \in DOMAIN playing_peer_list'
                 /\ playing_peer_list'[c].id = acked_id'[c]]_vars

\* a response has been written on a channel and carried its record's id
C2_Witness ==
    \E c \in DOMAIN playing_peer_list :
        /\ acked_id[c] > 0
        /\ acked_id[c] = playing_peer_list[c].id
        /\ hb[c] = "wait"

(***************************************************************************)
(* C4: for every peer, the sends a posted task enqueues to it are the      *)
(* task's segments in input order, all of one invocation, and the tasks    *)
(* run one at a time in the order their invocations posted them: every     *)
(* send of one invocation's task is enqueued before any send of the next.  *)
(***************************************************************************)
C4_SubmissionOrder ==
    [][/\ \A c \in DOMAIN ran' :
             /\ \A i \in 1..Len(ran'[c]) : ran'[c][i].inv = last_inv'
             /\ \A i, j \in 1..Len(ran'[c]) :
                   i < j => ran'[c][i].begin + ran'[c][i].size <= ran'[c][j].begin
       /\ last_inv' # last_inv =>
             /\ last_inv' > last_inv
             /\ \A k \in 1..Len(posted') : posted'[k].inv > last_inv'
       /\ \A k, m \in 1..Len(posted') : k < m => posted'[k].inv < posted'[m].inv
      ]_vars

\* the task of the second invocation has just enqueued its two segments to
\* a peer, the task of the first having run before it
C4_Witness ==
    /\ last_inv = 2
    /\ broadcasts = 2
    /\ \E c \in DOMAIN ran :
          /\ Len(ran[c]) = 2
          /\ ran[c][1].begin = 0
          /\ ran[c][2].begin = 1464
          /\ ran[c][1].to # NoEndpoint

(***************************************************************************)
(* C5: no broadcast task enqueues a send for a session whose datagram      *)
(* endpoint is absent: no send of a task that has just run is addressed    *)
(* to the endpoint of a record no registration datagram has bound.         *)
(***************************************************************************)
C5_UnboundSkipped ==
    \A c \in DOMAIN ran :
        \A i \in 1..Len(ran[c]) : ran[c][i].to # NoEndpoint

(***************************************************************************)
(* C6: a session whose last_tick has not been refreshed within the         *)
(* heartbeat timeout is out of the registry no later than one heartbeat    *)
(* interval after the deadline: the registry never holds a record whose    *)
(* last_tick is older than timeout + interval.  (A broadcast task          *)
(* addresses the records of the registry and no others, so a session is a  *)
(* target for as long as its record stays.)                                *)
(***************************************************************************)
C6_RemovedByDeadline ==
    \A c \in DOMAIN playing_peer_list :
        playing_peer_list[c].age <= HeartbeatTimeout + HeartbeatInterval

(***************************************************************************)
(* C7: when read_loop receives an unknown command word or an I/O error on  *)
(* a control channel, that channel is closed and its record removed, and   *)
(* every other record, every other channel, the accept loop and the UDP    *)
(* listener stay as they were.                                             *)
(***************************************************************************)
C7_OnlyOwnSession ==
    [][\A c \in Chan :
          (ReadUnknown(c) \/ ReadError(c))
              => /\ chan'[c] = "closed"
                 /\ c \notin DOMAIN playing_peer_list'
                 /\ \A d \in Chan \ {c} :
                       /\ chan'[d] = chan[d]
                       /\ (d \in DOMAIN playing_peer_list') = (d \in DOMAIN playing_peer_list)
                       /\ d \in DOMAIN playing_peer_list =>
                             playing_peer_list'[d] = playing_peer_list[d]
                 /\ acc' = acc
                 /\ udp' = udp]_vars

(***************************************************************************)
(* C8 as stated: when a channel that has a record issues START_PLAY again, *)
(* its record stays in the registry with id, datagram endpoint and         *)
(* last_tick unchanged.                                                    *)
(***************************************************************************)
C8_Original ==
    [][\A c \in Chan :
          (c \in DOMAIN playing_peer_list /\ ReadStartPlay(c))
              => /\ c \in DOMAIN playing_peer_list'
                 /\ playing_peer_list'[c] = playing_peer_list[c]]_vars

(***************************************************************************)
(* C8 amended: when a channel that has a record issues START_PLAY again,   *)
(* add_playing_peer rejects it (no id is allocated, no record is modified, *)
(* no acknowledgment is written) and read_loop closes the session and      *)
(* ends: on a connection that is up the record is removed and the channel  *)
(* closed; in every case the record is removed or left as it was, and no   *)
(* other record changes.                                                   *)
(***************************************************************************)
C8_RepeatClosesSession ==
    [][\A c \in Chan :
          (c \in DOMAIN playing_peer_list /\ ReadStartPlay(c))
              => /\ g_id' = g_id
                 /\ issued' = issued
                 /\ acked_id' = acked_id
                 /\ rl'[c] = "done"
                 /\ c \in DOMAIN playing_peer_list' =>
                       playing_peer_list'[c] = playing_peer_list[c]
                 /\ connected[c] =>
                       /\ c \notin DOMAIN playing_peer_list'
                       /\ chan'[c] = "closed"
                 /\ \A d \in Chan \ {c} :
                       /\ (d \in DOMAIN playing_peer_list') = (d \in DOMAIN playing_peer_list)
                       /\ d \in DOMAIN playing_peer_list =>
                             playing_peer_list'[d] = playing_peer_list[d]]_vars

\* an acknowledged session has sent START_PLAY again on a connection that
\* is up: its record is gone and its channel closed
C8_Witness ==
    \E c \in Chan :
        /\ acked_id[c] # 0
        /\ connected[c]
        /\ rl[c] = "done"
        /\ rl_cmd[c] = cmd_start_play
        /\ chan[c] = "closed"
        /\ c \notin DOMAIN playing_peer_list

(***************************************************************************)
(* C9 as stated: the registry holds a record for a channel only after the  *)
(* START_PLAY acknowledgment has been written successfully on it.          *)
(***************************************************************************)
C9_Original ==
    \A c \in DOMAIN playing_peer_list : acked_id[c] # 0

(***************************************************************************)
(* C9 amended: the record is created when START_PLAY is read, before the   *)
(* acknowledgment is written.  While the acknowledgment write is pending   *)
(* the registry already holds the channel's record, with the id being      *)
(* written; every record carries an id add_playing_peer issued; and the    *)
(* channel's heartbeat supervisor exists only after an acknowledgment has  *)
(* been written successfully on the channel.                               *)
(***************************************************************************)
C9_RecordBeforeAck ==
    \A c \in Chan :
        /\ rl[c] = "write_ack" =>
              /\ c \in DOMAIN playing_peer_list
              /\ playing_peer_list[c].id = rl_id[c]
        /\ c \in DOMAIN playing_peer_list =>
              \E i \in 1..Len(issued) : issued[i].id = playing_peer_list[c].id
        /\ hb[c] # "none" => acked_id[c] # 0

\* the acknowledgment write is pending, the record is in the registry and
\* the UDP listener has already bound a datagram endpoint to it
C9_Witness ==
    \E c \in DOMAIN playing_peer_list :
        /\ rl[c] = "write_ack"
        /\ acked_id[c] = 0
        /\ playing_peer_list[c].id = rl_id[c]
        /\ playing_peer_list[c].udp_peer # NoEndpoint

(***************************************************************************)
(* C10: the datagram endpoint of a session, once present, is never changed *)
(* or cleared, whatever registration datagrams the UDP listener receives.  *)
(***************************************************************************)
C10_EndpointSetOnce ==
    [][\A c \in DOMAIN playing_peer_list :
          (/\ c \in DOMAIN playing_peer_list'
           /\ playing_peer_list'[c].id = playing_peer_list[c].id
           /\ playing_peer_list[c].udp_peer # NoEndpoint)
              => playing_peer_list'[c].udp_peer = playing_peer_list[c].udp_peer]_vars

(***************************************************************************)
(* C11: stop_server called while the server is not started (never started, *)
(* or stopped since) completes without an error and leaves the manager     *)
(* not running: no such call ends with an exception.                       *)
(***************************************************************************)
C11_StopNotStartedSafe ==
    ~ioc => ctl # "join_failed"

(***************************************************************************)
(* C12: when binding or listening fails inside start_server, the server is *)
(* not left half-started: after the failed call is_running() is false,     *)
(* there is no io_context, no accept loop and no UDP listener has been     *)
(* spawned and the audio collaborator is not capturing.                    *)
(***************************************************************************)
C12_FailedStartLeavesNothing ==
    ctl = "start_failed" =>
        /\ ~ioc
        /\ acc = "none"
        /\ udp = "none"
        /\ ~udp_server
        /\ ~capturing

(***************************************************************************)
(* C13: nothing of an earlier start_server / stop_server cycle is visible  *)
(* in a later one.  Every record of the registry carries an id issued in   *)
(* the current cycle and every posted broadcast task was posted in the     *)
(* current cycle; once stop_server has returned, the registry is empty, no *)
(* posted task, session task, heartbeat supervisor, accept loop or UDP     *)
(* listener is left, and the datagram socket and the io_context are gone.  *)
(***************************************************************************)
C13_NoLeakAcrossCycles ==
    /\ \A c \in DOMAIN playing_peer_list :
          \E i \in 1..Len(issued) :
              /\ issued[i].id = playing_peer_list[c].id
              /\ issued[i].run = starts
    /\ \A k \in 1..Len(posted) : posted[k].run = starts
    /\ ctl = "stopped" =>
          /\ ~ioc
          /\ ~udp_server
          /\ net_thread = "idle"
          /\ playing_peer_list = <<>>
          /\ posted = <<>>
          /\ acc = "none"
          /\ udp = "none"
          /\ \A c \in Chan : chan[c] = "free" /\ rl[c] = "none" /\ hb[c] = "none"

\* the second cycle holds a session of its own and a posted task of its
\* own, the first cycle having registered a session too
C13_Witness ==
    /\ starts = 2
    /\ ctl = "started"
    /\ Len(issued) = 2
    /\ issued[1].run = 1
    /\ \E c \in DOMAIN playing_peer_list : playing_peer_list[c].id = issued[2].id
    /\ posted # <<>>

(***************************************************************************)
(* C14: no two threads are inside an access to the peer registry at the    *)
(* same time.  The capture thread (broadcast_audio_data) never accesses    *)
(* it; the control thread accesses it (stop_server's clear) only once the  *)
(* executor thread has ended; the executor thread accesses it only while   *)
(* the control thread is outside of its access.                            *)
(***************************************************************************)
C14_RegistryOneThread ==
    /\ Cardinality(access) <= 1
    /\ "producer" \notin access
    /\ "control" \in access => exec_pc = "exited"
    /\ exec_pc = "task" => stop_pc \in {"none", "stopped_ioc"}

\* the control thread is clearing a registry in which sessions have
\* registered, with a producer's task still queued
C14_Witness ==
    /\ "control" \in access
    /\ g_id > 0
    /\ posted # <<>>

(***************************************************************************)
(* C15: when both the session task (read_loop) and the heartbeat           *)
(* supervisor (heartbeat_loop) of a control channel have ended, in either  *)
(* order, the channel's record is out of the registry and the channel is   *)
(* closed; the step that ends the second of the two changes no registry    *)
(* entry, and no record of another channel is removed by it.               *)
(***************************************************************************)
C15_DoubleTerminationSafe ==
    [][\A c \in Chan :
          (rl'[c] = "done" /\ hb'[c] = "done")
              => /\ c \notin DOMAIN playing_peer_list'
                 /\ chan'[c] = "closed"
                 /\ (rl[c] # "done" \/ hb[c] # "done")
                       => playing_peer_list' = playing_peer_list]_vars

(***************************************************************************)
(* C16: on every control connection, heartbeat_loop has been spawned once  *)
(* if a START_PLAY acknowledgment has been written on it and never         *)
(* otherwise, and a heartbeat_loop frame exists for spawned connections    *)
(* only; a connection has a record only if START_PLAY has been read on it  *)
(* (add_playing_peer issued the record's id on that connection).           *)
(***************************************************************************)
C16_OneSupervisorPerAck ==
    \A c \in Chan :
        /\ hb_spawned[c] = (IF acked_id[c] # 0 THEN 1 ELSE 0)
        /\ (hb[c] # "none") = (hb_spawned[c] = 1)
        /\ c \in DOMAIN playing_peer_list =>
              \E i \in 1..Len(issued) :
                  /\ issued[i].peer = c
                  /\ issued[i].run = starts
                  /\ issued[i].id = playing_peer_list[c].id

\* one connection acknowledged, with its one supervisor, next to a
\* connection that issued START_PLAY, failed before the acknowledgment
\* was written and has no supervisor
C16_Witness ==
    \E c, d \in Chan :
        /\ c # d
        /\ acked_id[c] # 0
        /\ hb_spawned[c] = 1
        /\ rl[d] = "done"
        /\ acked_id[d] = 0
        /\ hb_spawned[d] = 0
        /\ \E i \in 1..Len(issued) : issued[i].peer = d /\ issued[i].run = starts

(***************************************************************************)
(* C17: while the server is running, between start_server and stop_server, *)
(* the accept loop keeps accepting: whatever accepts, accept errors and    *)
(* session terminations came before, accept_tcp_loop is still there to     *)
(* accept the next incoming control connection and give it a session task. *)
(***************************************************************************)
C17_AcceptLoopLives ==
    io_running => acc = "accept"

(***************************************************************************)
(* C18: the client's heartbeat emitter and datagram receiver exist, and a  *)
(* registration datagram has been sent, only after a GET_FORMAT response   *)
(* with cmd = GET_FORMAT and size > 0 and then a START_PLAY response with  *)
(* cmd = START_PLAY have been read; at most one registration datagram is   *)
(* sent and it carries the id of that START_PLAY response; when            *)
(* client_connect has returned on a failed read, write or validation,      *)
(* neither loop has been spawned and no datagram sent.                     *)
(***************************************************************************)
C18_ClientHandshakeFirst ==
    /\ (cl_hb # "none" \/ cl_udp # "none" \/ cl_sent # <<>>)
          => /\ cl_format.cmd = cmd_get_format
             /\ cl_format.size > 0
             /\ cl_play.cmd = cmd_start_play
             /\ cl_id = cl_play.id
    /\ Len(cl_sent) <= 1
    /\ \A i \in 1..Len(cl_sent) : cl_sent[i] = cl_play.id
    /\ cl_pc = "returned"
          => cl_hb = "none" /\ cl_udp = "none" /\ cl_sent = <<>>

\* the datagram has been sent with the id the server answered, the
\* heartbeat emitter is between two heartbeats
C18_Witness ==
    /\ cl_pc = "spawned"
    /\ cl_play.id = MaxIds
    /\ cl_sent = <<MaxIds>>
    /\ cl_hb = "wait"
    /\ cl_udp = "receive"

(***************************************************************************)
(* C19: a registration datagram carrying id from source address e changes  *)
(* at most one thing: the record whose id it carries, if there is one,     *)
(* gets e as its datagram endpoint and nothing else of it or of any other  *)
(* record changes; with no such record the registry is unchanged; and in   *)
(* both cases the UDP listener is receiving afterwards.                    *)
(***************************************************************************)
C19_DatagramBindsOneSession ==
    [][\A id \in 0..MaxIds, e \in Endpoints :
          UdpRecv(id, e)
              => /\ udp' = "recv"
                 /\ DOMAIN playing_peer_list' = DOMAIN playing_peer_list
                 /\ \A c \in DOMAIN playing_peer_list :
                       playing_peer_list'[c] =
                          IF playing_peer_list[c].id = id
                          THEN [playing_peer_list[c] EXCEPT !.udp_peer = e]
                          ELSE playing_peer_list[c]]_vars

(***************************************************************************)
(* C20: the segmentation loop of broadcast_audio_data terminates for every *)
(* count > 0 and every block_align >= 1, block_align > 1464 included: each *)
(* iteration of the loop advances begin_pos by at least one byte.          *)
(***************************************************************************)
C20_LoopAdvances ==
    [][(seg_pc = "loop" /\ begin_pos < count) => begin_pos' > begin_pos]_vars

(***************************************************************************)
(* C21: between any two steps of the executor, every control channel that  *)
(* has a record in the registry is open on the server side; no heartbeat   *)
(* supervisor whose timer has expired finds its channel open and its       *)
(* record missing; and a HEARTBEAT write is started, and completes, on an  *)
(* open channel only.                                                      *)
(***************************************************************************)
C21_RecordMeansOpen ==
    [][\A c \in Chan :
          /\ c \in DOMAIN playing_peer_list' => chan'[c] = "open"
          /\ ~(HbTimer(c) /\ chan[c] = "open" /\ c \notin DOMAIN playing_peer_list)
          /\ (hb[c] = "due" /\ hb'[c] = "write") => chan[c] = "open"
          /\ HbWriteOk(c) => chan[c] = "open"]_vars

====
